---- MODULE Spec2Model ----
(***************************************************************************)
(* EventLens AI: the guest's face capture and match scan (ClientPortal),  *)
(* the matching service wrapper (findFaceMatches) and the photographer's  *)
(* background indexing (PhotographerDashboard), as state machines.        *)
(*                                                                         *)
(* Every step of the model is one JavaScript task: the code between two   *)
(* suspension points (await, timer, user event) runs atomically.          *)
(***************************************************************************)
EXTENDS Integers, Sequences, FiniteSets, TLC

(***************************************************************************)
(* Bounds of the model.                                                    *)
(***************************************************************************)
\* largest gallery handed to a scan
MaxPhotos == 10
\* longest index array the matching service answers with
MaxRet == 2
\* "Not me" clicks followed in one ClientPortal session
MaxDeselect == 1
\* camera streams the device hands out in one session
MaxStreams == 2
\* startCamera invocations waiting for the device at one time
MaxCameraRequests == 2
\* recording sequences started in one session
MaxSequences == 2
\* photos uploaded to the gallery in all
MaxUploads == 4
\* files of one drop or file selection
MaxFilesPerDrop == 3
\* times the PhotographerDashboard is mounted
MaxMounts == 2
\* re-trigger timers pending at one time: a batch settles only after the
\* timers of earlier batches have left room
MaxTimers == 2
\* photos uploaded where the progress of the batches is followed
MaxFairUploads == 3
\* startScan invocations followed in one session
MaxScanClicks == 2
\* selfie files the guest selects in one session
MaxSelfies == 1
\* the gallery of a guest session that also captures and uploads
MaxClientPhotos == 5
\* in such a session: times the guest opens the camera, and recording
\* sequences the guest starts
MaxClientCameras == 1
MaxClientSequences == 1
\* largest gallery where the positions inside a chunk are followed
MaxChunkPhotos == 5
\* largest gallery scanned while the indexer is still at work on it
MaxHandoverPhotos == 5
\* most photos of a scanned gallery the indexer has not reached yet
MaxUnindexed == 2

(***************************************************************************)
(* Program constants.                                                      *)
(***************************************************************************)
\* startScan: const BATCH_SIZE = 4
BATCH_SIZE == 4

\* JavaScript null, for the error message
Null == "null"

\* displaySelfie === null
NoSelfie == <<>>

\* cameraStream === null
NoStream == <<>>

\* an absent (undefined) base64 string
NoBase64 == <<>>

Min(a, b) == IF a < b THEN a ELSE b

\* Math.round(a / b * 100) for naturals a, b > 0 (round half up)
RoundPercent(a, b) == (200 * a + b) \div (2 * b)

Range(s) == {s[k] : k \in DOMAIN s}

RECURSIVE SeqsUpTo(_, _)
\* all sequences over S of length at most n
SeqsUpTo(S, n) ==
  IF n = 0 THEN {<<>>}
  ELSE LET shorter == SeqsUpTo(S, n - 1)
       IN  shorter \cup {Append(s, x) : s \in shorter, x \in S}

RECURSIVE FilterOut(_, _)
\* prev.filter(id => id !== photoId)
FilterOut(s, x) ==
  IF s = <<>> THEN <<>>
  ELSE IF Head(s) = x THEN FilterOut(Tail(s), x)
       ELSE <<Head(s)>> \o FilterOut(Tail(s), x)

(***************************************************************************)
(* Photos.  generateId yields a fresh id per upload; the k-th upload's     *)
(* File object is FileOf(k).                                               *)
(***************************************************************************)
\* resizeImage(file, 600): the normalized representation of a file
ResizeImage(file) == <<"jpeg600", file>>

\* the File of the k-th upload (0: the selfie file the guest uploads)
FileOf(k) == <<"file", k>>

\* the id generateId gave to the k-th uploaded photo
GenerateId(k) == 10 + k

\* a photo as processFiles creates it
NewPhoto(k) ==
  [id |-> GenerateId(k), file |-> FileOf(k),
   processed |-> FALSE, optimizedBase64 |-> NoBase64]

\* a photo after the indexer's update
IndexedPhoto(p) ==
  [p EXCEPT !.processed = TRUE, !.optimizedBase64 = ResizeImage(p.file)]

VARIABLES
  \* App state
  eventPhotos,
  \* ClientPortal state
  referenceFrames, displaySelfie, isScanning, matchedPhotoIds, scanProgress,
  error, waSent,
  showCamera, cameraStream, recordingStep,
  \* the startScan invocations that have not returned yet; a run's firstDone
  \* field is history: the position of the chunk whose resizeImage resolved
  \* first (0: none has); so is errorAtStart, the error shown at the click
  scanRuns,
  \* the startCamera invocations waiting for getUserMedia
  cameraRequests,
  \* the MediaStreams whose tracks are running, and how many were handed out
  liveStreams, streamCount,
  \* the runRecordingSequence invocations whose timers are running, oldest
  \* first, and how many were started
  sequences, sequenceCount,
  \* the pending setTimeout(stopCamera, 1000) callbacks of finishRecording
  stopTimers,
  \* history: the sequences that were running, and the stream that was shown,
  \* when the X button called stopCamera during a pose, since the last start
  \* trigger
  cancelledSeqs,
  \* history: what the finishRecording calls were given, in order
  finished,
  \* PhotographerDashboard: the mounted instance (0: none) and how many were
  \* mounted; per instance its processingRef.current and processingQueue
  dashboard, mountCount, processingRef, processingQueue,
  \* the processNextBatch invocations awaiting Promise.all, oldest first
  batches,
  \* the pending setTimeout(processNextBatch, 100) callbacks
  retriggers,
  \* how many photos were uploaded
  uploadCount,
  \* history: per dashboard instance, the parity of the number of batches it
  \* has started
  batchTurn,
  \* history: every value handed to setScanProgress by the runs, in order
  progressLog,
  \* history: the candidate batch of every findFaceMatches call, in order
  oracleCalls,
  \* history: the chunk numbers whose service call failed
  serviceFailures,
  \* history: the ids removed by handleDeselect since the last startScan, each
  \* with the number of findFaceMatches calls made before its removal
  deselected,
  \* the handleSelfieSelect invocations awaiting resizeImage (their files), and
  \* how many selfie files were selected
  selfieLoads, selfieCount,
  \* history: how many times a ReferenceSet was installed (finishRecording with
  \* frames, handleSelfieSelect after resizeImage), and for every id now in
  \* matchedPhotoIds the number of the ReferenceSet it was matched against
  installs, delivered,
  \* history: how many times startScan was invoked
  scanClicks

scanVars == <<referenceFrames, displaySelfie, isScanning, matchedPhotoIds,
              scanProgress, error, waSent, scanRuns, progressLog, oracleCalls,
              serviceFailures, deselected>>

captureVars == <<showCamera, cameraStream, recordingStep, cameraRequests,
                 liveStreams, streamCount, sequences, sequenceCount, stopTimers,
                 cancelledSeqs, finished>>

indexVars == <<dashboard, mountCount, processingRef, processingQueue, batches,
               retriggers, uploadCount, batchTurn>>

sessionVars == <<selfieLoads, selfieCount, installs, delivered, scanClicks>>

vars == <<eventPhotos, scanVars, captureVars, indexVars, sessionVars>>


(***************************************************************************)
(* services/geminiService.ts                                               *)
(***************************************************************************)
\* the indices the service answers with: a chunk's first position, the last
\* position of a full chunk (past the end of a shorter one) and the position
\* past the end of every chunk
IndexValues == {0, BATCH_SIZE - 1, BATCH_SIZE}

IndexArrays == SeqsUpTo(IndexValues, MaxRet)

\* what ai.models.generateContent may do: reject (unreachable, timeout),
\* answer without text, answer with text that is not JSON, answer JSON without
\* a "matches" key, answer {"matches": [...]}
ServiceResponses ==
  {[kind |-> k, matches |-> <<>>] : k \in {"reject", "notext", "badjson", "nokey"}}
  \cup {[kind |-> "json", matches |-> m] : m \in IndexArrays}

\* the responses that are service failures (OracleError)
IsServiceFailure(resp) == resp.kind \in {"reject", "badjson"}

Resolved(v) == [status |-> "resolved", value |-> v]
Rejected == [status |-> "rejected", value |-> <<>>]

\* findFaceMatches(referencePhotosBase64, candidatePhotosBase64), given what
\* the service does with the request: the promise the caller awaits
FindFaceMatches(referencePhotosBase64, candidatePhotosBase64, resp) ==
  IF Len(candidatePhotosBase64) = 0 THEN Resolved(<<>>)
  ELSE CASE resp.kind = "reject"  -> Resolved(<<>>)   \* catch: return []
         [] resp.kind = "notext"  -> Resolved(<<>>)   \* if (!resultText) return []
         [] resp.kind = "badjson" -> Resolved(<<>>)   \* JSON.parse throws; catch
         [] resp.kind = "nokey"   -> Resolved(<<>>)   \* result.matches || []
         [] OTHER                 -> Resolved(resp.matches)

(***************************************************************************)
(* ClientPortal: startScan                                                 *)
(***************************************************************************)
ScanErrorMessage == "AI service unavailable or interrupted. Please try again."

\* startCamera: the message set when getUserMedia rejects
CameraErrorMessage ==
  "Unable to access camera. Please allow permissions or use the upload option."

\* a promise of Promise.all's array that has not settled
Pending == <<"pending">>

\* photosToScan.slice(0, i + BATCH_SIZE): every chunk restarts at the first photo
ChunkFromStart(photosToScan, i) ==
  SubSeq(photosToScan, 1, Min(i + BATCH_SIZE, Len(photosToScan)))

\* photosToScan.slice(i, i + BATCH_SIZE + 1): one photo too many per chunk
ChunkOneMore(photosToScan, i) ==
  SubSeq(photosToScan, i + 1, Min(i + BATCH_SIZE + 1, Len(photosToScan)))

\* photosToScan.slice(i, i + BATCH_SIZE), i counted from 0
Chunk(photosToScan, i) ==
  SubSeq(photosToScan, i + 1, Min(i + BATCH_SIZE, Len(photosToScan)))

\* the promise of chunk.map's callback for photo p: settled at once with the
\* cached representation, or pending on resizeImage(p.file, 600)
CandidatePromise(p) ==
  IF p.optimizedBase64 # NoBase64 THEN p.optimizedBase64 ELSE Pending

\* indices.map(idx => chunk[idx]?.id): an index outside the chunk yields an
\* undefined id (0, the id of no photo) instead of a TypeError
ChunkMatchIdsLenient(chunk, indices) ==
  [threw |-> FALSE,
   ids |-> [k \in DOMAIN indices |->
              IF indices[k] + 1 \in DOMAIN chunk THEN chunk[indices[k] + 1].id ELSE 0]]

\* indices.map(idx => chunk[idx].id): the ids, or a TypeError thrown when
\* some chunk[idx] is undefined
ChunkMatchIds(chunk, indices) ==
  IF \E k \in DOMAIN indices : indices[k] + 1 \notin DOMAIN chunk
  THEN [threw |-> TRUE, ids |-> <<>>]
  ELSE [threw |-> FALSE, ids |-> [k \in DOMAIN indices |-> chunk[indices[k] + 1].id]]

\* the progress computed from the chunk's start: Math.round((i / totalPhotos) * 100)
ChunkProgressAtStart(i, totalPhotos) == Min(100, RoundPercent(i, totalPhotos))

\* Math.round(((i + BATCH_SIZE) / totalPhotos) * 100), the cap forgotten
ChunkProgressUncapped(i, totalPhotos) == RoundPercent(i + BATCH_SIZE, totalPhotos)

\* Math.min(100, Math.round(((i + BATCH_SIZE) / totalPhotos) * 100))
ChunkProgress(i, totalPhotos) ==
  Min(100, RoundPercent(i + BATCH_SIZE, totalPhotos))

\* the Find Matches button rendered also while a scan is running
FindMatchesShownWhileScanning ==
  /\ displaySelfie # NoSelfie
  /\ ~showCamera
  /\ Len(matchedPhotoIds) = 0
  /\ scanProgress = 0

\* the Find Matches button is rendered and not covered by the camera modal
FindMatchesShown ==
  /\ displaySelfie # NoSelfie
  /\ ~showCamera
  /\ ~isScanning
  /\ Len(matchedPhotoIds) = 0
  /\ scanProgress = 0

\* results collected in completion order: the value lands at the first
\* position still pending
SettleFirstPending(promises, k, value) ==
  LET first == CHOOSE j \in DOMAIN promises :
                 /\ promises[j] = Pending
                 /\ \A h \in 1 .. j - 1 : promises[h] # Pending
  IN  [promises EXCEPT ![first] = value]

\* Promise.all: the value of the k-th promise lands at position k of the
\* result array, whenever it settles
Settle(promises, k, value) == [promises EXCEPT ![k] = value]

AllSettled(run) ==
  \A k \in DOMAIN run.candidateBase64s : run.candidateBase64s[k] # Pending

\* the loop body without the await of Promise.all: findFaceMatches is called
\* in the task that created the chunk's promises
EnterChunkNoAwait(run, i) ==
  LET chunk == Chunk(run.photosToScan, i)
  IN  [run EXCEPT !.i = i,
                  !.candidateBase64s =
                     [k \in DOMAIN chunk |-> CandidatePromise(chunk[k])],
                  !.firstDone = 0,
                  !.pc = "oracle"]

\* the run at the top of the loop body for offset i: the chunk's promises are
\* created; when none is pending the oracle call follows in the same task
EnterChunk(run, i) ==
  LET chunk == Chunk(run.photosToScan, i)
      started == [run EXCEPT !.i = i,
                    !.candidateBase64s =
                       [k \in DOMAIN chunk |-> CandidatePromise(chunk[k])],
                    !.firstDone = 0]
  IN  [started EXCEPT !.pc = IF AllSettled(started) THEN "oracle" ELSE "normalize"]

\* the findFaceMatches call a run makes on entering pc = "oracle"
IssuedCalls(run) ==
  IF run.pc = "oracle"
  THEN <<[chunkNo |-> (run.i \div BATCH_SIZE) + 1,
          references |-> run.referenceFrames,
          candidates |-> run.candidateBase64s,
          firstDone |-> run.firstDone]>>
  ELSE <<>>

RemoveRun(r) ==
  [k \in 1 .. Len(scanRuns) - 1 |-> IF k < r THEN scanRuns[k] ELSE scanRuns[k + 1]]

\* !(referenceFrames.length === 0 || eventPhotos.length === 0), the check
\* on the ReferenceSet forgotten
ScanPreconditionPhotosOnly(frames, photos) == Len(photos) # 0

\* !(referenceFrames.length === 0 || eventPhotos.length === 0)
ScanPrecondition(frames, photos) == Len(frames) # 0 /\ Len(photos) # 0

\* the resets of startScan without setError(null)
ResetSessionKeepsError ==
  /\ isScanning' = TRUE
  /\ scanProgress' = 0
  /\ matchedPhotoIds' = <<>>
  /\ error' = error
  /\ waSent' = FALSE

\* setIsScanning(true) ... setWaSent(false)
ResetSession ==
  /\ isScanning' = TRUE
  /\ scanProgress' = 0
  /\ matchedPhotoIds' = <<>>
  /\ error' = Null
  /\ waSent' = FALSE

\* startScan, from the click to its first await
StartScan ==
  /\ FindMatchesShown
  /\ scanClicks < MaxScanClicks
  /\ scanClicks' = scanClicks + 1
  /\ IF ~ScanPrecondition(referenceFrames, eventPhotos)
     THEN UNCHANGED <<eventPhotos, scanVars, captureVars, indexVars, selfieLoads,
                      selfieCount, installs, delivered>>
     ELSE LET run == EnterChunk(
                       [photosToScan |-> eventPhotos,
                        referenceFrames |-> referenceFrames,
                        i |-> 0, pc |-> "normalize",
                        candidateBase64s |-> <<>>, foundMatches |-> <<>>,
                        firstDone |-> 0, install |-> installs,
                        errorAtStart |-> error], 0)
          IN  /\ ResetSession
              /\ scanRuns' = Append(scanRuns, run)
              /\ progressLog' = <<0>>
              /\ oracleCalls' = IssuedCalls(run)
              /\ serviceFailures' = {}
              /\ deselected' = {}
              /\ delivered' = {}
              /\ UNCHANGED <<eventPhotos, referenceFrames, displaySelfie,
                             captureVars, indexVars, selfieLoads, selfieCount,
                             installs>>

\* a finally block without setIsScanning(false)
ScanFinallyStaysScanning(r) ==
  /\ isScanning' = isScanning
  /\ scanProgress' = 100
  /\ scanRuns' = RemoveRun(r)

\* finally of startScan; the run returns
ScanFinally(r) ==
  /\ isScanning' = FALSE
  /\ scanProgress' = 100
  /\ scanRuns' = RemoveRun(r)

\* a catch block that only logs, then finally
ScanCatchLogsOnly(r) ==
  /\ error' = error
  /\ progressLog' = Append(progressLog, 100)
  /\ ScanFinally(r)

\* catch and finally of startScan
ScanCatchFinally(r) ==
  /\ error' = ScanErrorMessage
  /\ progressLog' = Append(progressLog, 100)
  /\ ScanFinally(r)

\* a pending resizeImage of the run's chunk resolves
NormalizeResolve(r, k) ==
  /\ r \in DOMAIN scanRuns
  /\ scanRuns[r].pc = "normalize"
  /\ k \in DOMAIN scanRuns[r].candidateBase64s
  /\ scanRuns[r].candidateBase64s[k] = Pending
  /\ LET run == scanRuns[r]
         chunk == Chunk(run.photosToScan, run.i)
         filled == [run EXCEPT
                      !.candidateBase64s = Settle(@, k, ResizeImage(chunk[k].file)),
                      !.firstDone = IF @ = 0 THEN k ELSE @]
         next == [filled EXCEPT !.pc = IF AllSettled(filled) THEN "oracle"
                                       ELSE "normalize"]
     IN  /\ scanRuns' = [scanRuns EXCEPT ![r] = next]
         /\ oracleCalls' = oracleCalls \o IssuedCalls(next)
  /\ UNCHANGED <<eventPhotos, referenceFrames, displaySelfie, isScanning,
                 matchedPhotoIds, scanProgress, error, waSent, progressLog,
                 serviceFailures, deselected, captureVars, indexVars,
                 sessionVars>>

\* a pending resizeImage of the run's chunk rejects: Promise.all rejects
NormalizeReject(r, k) ==
  /\ r \in DOMAIN scanRuns
  /\ scanRuns[r].pc = "normalize"
  /\ k \in DOMAIN scanRuns[r].candidateBase64s
  /\ scanRuns[r].candidateBase64s[k] = Pending
  /\ ScanCatchFinally(r)
  /\ UNCHANGED <<eventPhotos, referenceFrames, displaySelfie, matchedPhotoIds,
                 waSent, oracleCalls, serviceFailures, deselected, captureVars, indexVars,
                 sessionVars>>

\* findFaceMatches settles and the run goes on to its next await or its end
OracleReturn(r, resp) ==
  /\ r \in DOMAIN scanRuns
  /\ scanRuns[r].pc = "oracle"
  /\ LET run == scanRuns[r]
         chunk == Chunk(run.photosToScan, run.i)
         totalPhotos == Len(run.photosToScan)
         chunkNo == (run.i \div BATCH_SIZE) + 1
         result == FindFaceMatches(run.referenceFrames, run.candidateBase64s, resp)
         mapped == ChunkMatchIds(chunk, result.value)
         chunkMatchIds == mapped.ids
         progress == ChunkProgress(run.i, totalPhotos)
         nextI == run.i + BATCH_SIZE
     IN  /\ serviceFailures' = IF IsServiceFailure(resp)
                               THEN serviceFailures \cup {chunkNo}
                               ELSE serviceFailures
         /\ IF result.status = "rejected" \/ mapped.threw
            THEN /\ ScanCatchFinally(r)
                 /\ UNCHANGED <<matchedPhotoIds, oracleCalls, delivered>>
            ELSE LET found == [run EXCEPT !.foundMatches = @ \o chunkMatchIds]
                 IN  /\ matchedPhotoIds' = matchedPhotoIds \o chunkMatchIds
                     /\ delivered' = delivered \cup
                          {[id |-> id, install |-> run.install] :
                             id \in Range(chunkMatchIds)}
                     /\ IF nextI < totalPhotos
                        THEN LET next == EnterChunk(found, nextI)
                             IN  /\ scanRuns' = [scanRuns EXCEPT ![r] = next]
                                 /\ oracleCalls' = oracleCalls \o IssuedCalls(next)
                                 /\ scanProgress' = progress
                                 /\ progressLog' = Append(progressLog, progress)
                                 /\ UNCHANGED <<isScanning, error>>
                        ELSE /\ ScanFinally(r)
                             /\ progressLog' = progressLog \o <<progress, 100>>
                             /\ UNCHANGED <<oracleCalls, error>>
  /\ UNCHANGED <<eventPhotos, referenceFrames, displaySelfie, waSent, deselected,
                 captureVars, indexVars, selfieLoads, selfieCount, installs,
                 scanClicks>>

\* handleDeselect(photoId), from the "Not me" button of a matched photo's card
HandleDeselect(photoId) ==
  /\ displaySelfie # NoSelfie
  /\ ~showCamera
  /\ \E k \in DOMAIN eventPhotos : eventPhotos[k].id = photoId
  /\ photoId \in Range(matchedPhotoIds)
  /\ Cardinality(deselected) < MaxDeselect
  /\ matchedPhotoIds' = FilterOut(matchedPhotoIds, photoId)
  /\ deselected' = deselected \cup {[id |-> photoId, calls |-> Len(oracleCalls)]}
  /\ delivered' = {d \in delivered : d.id # photoId}
  /\ UNCHANGED <<eventPhotos, referenceFrames, displaySelfie, isScanning,
                 scanProgress, error, waSent, scanRuns, progressLog, oracleCalls,
                 serviceFailures, captureVars, indexVars, selfieLoads,
                 selfieCount, installs, scanClicks>>

\* the camera as a freshly mounted ClientPortal has it
CameraClosed ==
  /\ showCamera = FALSE
  /\ cameraStream = NoStream
  /\ recordingStep = "IDLE"
  /\ cameraRequests = 0
  /\ liveStreams = {}
  /\ streamCount = 0
  /\ sequences = <<>>
  /\ sequenceCount = 0
  /\ stopTimers = <<>>
  /\ cancelledSeqs = {}
  /\ finished = <<>>

\* the scan state of a freshly mounted ClientPortal
ClientIdle ==
  /\ referenceFrames = <<>>
  /\ displaySelfie = NoSelfie
  /\ isScanning = FALSE
  /\ matchedPhotoIds = <<>>
  /\ scanProgress = 0
  /\ error = Null
  /\ waSent = FALSE
  /\ scanRuns = <<>>
  /\ progressLog = <<>>
  /\ oracleCalls = <<>>
  /\ serviceFailures = {}
  /\ deselected = {}

\* a ClientPortal in which no selfie file was selected and no ReferenceSet
\* installed
NoSelfieLoads ==
  /\ selfieLoads = <<>>
  /\ selfieCount = 0
  /\ installs = 0
  /\ delivered = {}
  /\ scanClicks = 0

\* the indexer of an App whose dashboard was never mounted; n photos uploaded
NoDashboard(n) ==
  /\ dashboard = 0
  /\ mountCount = 0
  /\ processingRef = <<>>
  /\ processingQueue = <<>>
  /\ batches = <<>>
  /\ retriggers = <<>>
  /\ uploadCount = n
  /\ batchTurn = <<>>

(***************************************************************************)
(* The scan of one ClientPortal session over a gallery the photographer    *)
(* left behind: n photos of which all but the last u are indexed.          *)
(***************************************************************************)
Gallery(n, u) ==
  [k \in 1 .. n |-> IF k <= n - u THEN IndexedPhoto(NewPhoto(k)) ELSE NewPhoto(k)]

\* URL.createObjectURL(file)
ObjectUrl(file) == <<"blob", file>>

\* the reference frame handleSelfieSelect stores for an uploaded selfie
UploadedFrame == ResizeImage(FileOf(0))

\* the session before its scan, the guest's selfie uploaded, while the error
\* message shown is e
ScanReady(e) ==
  /\ \E n \in 0 .. MaxPhotos : \E u \in 0 .. Min(n, MaxUnindexed) :
        eventPhotos = Gallery(n, u)
  /\ referenceFrames \in {<<>>, <<UploadedFrame>>}
  /\ displaySelfie = ObjectUrl(FileOf(0))
  /\ isScanning = FALSE
  /\ matchedPhotoIds = <<>>
  /\ scanProgress = 0
  /\ error = e
  /\ waSent = FALSE
  /\ scanRuns = <<>>
  /\ progressLog = <<>>
  /\ oracleCalls = <<>>
  /\ serviceFailures = {}
  /\ deselected = {}
  /\ selfieLoads = <<>>
  /\ selfieCount = 1
  /\ installs = Len(referenceFrames)
  /\ delivered = {}
  /\ scanClicks = 0
  /\ CameraClosed

InitScan == ScanReady(Null) /\ NoDashboard(Len(eventPhotos))

NextScan ==
  \/ StartScan
  \/ \E r \in DOMAIN scanRuns : \E k \in 1 .. BATCH_SIZE : NormalizeResolve(r, k)
  \/ \E r \in DOMAIN scanRuns : \E k \in 1 .. BATCH_SIZE : NormalizeReject(r, k)
  \/ \E r \in DOMAIN scanRuns : \E resp \in ServiceResponses : OracleReturn(r, resp)
  \/ \E p \in DOMAIN eventPhotos : HandleDeselect(eventPhotos[p].id)

SpecScan == InitScan /\ [][NextScan]_vars

\* the scan over a gallery of at most two chunks; the camera may have been
\* refused after the selfie was uploaded, its message still shown
InitChunk ==
  /\ \E e \in {Null, CameraErrorMessage} : ScanReady(e)
  /\ Len(eventPhotos) <= MaxChunkPhotos
  /\ NoDashboard(Len(eventPhotos))

SpecChunk == InitChunk /\ [][NextScan]_vars


(***************************************************************************)
(* ClientPortal: camera and guided capture.  The video element exists while *)
(* showCamera is true (videoRef.current is null otherwise).  stepProgress,  *)
(* the bar shown during a pose, is display only and not modelled.          *)
(***************************************************************************)
CaptureErrorMessage == "Failed to capture video frames."

\* the poses of runRecordingSequence in the order mutated: Left and Right swapped
PoseOrderSwapped == <<"STRAIGHT", "RIGHT", "LEFT", "SMILE">>

\* Sequence: Straight -> Left -> Right -> Smile
PoseOrder == <<"STRAIGHT", "LEFT", "RIGHT", "SMILE">>

\* canvas.toDataURL('image/jpeg', 0.85) of the live frame that sequence seqNo
\* sees at the end of a pose
DataUrl(pose, seqNo) == <<"data:image/jpeg;base64", <<"frame", pose, seqNo>>>>

\* f.split(',')[1]
Base64Part(f) == f[2]


\* captureFrame(): null (no frame) without a video element; with one, the
\* frame, or null when the canvas gives no 2d context
CaptureFrame(pose, seqNo) ==
  IF ~showCamera THEN {<<>>}
  ELSE {<<DataUrl(pose, seqNo)>>, <<>>}

\* the state updates of stopCamera as seen by a closure whose cameraStream is
\* stream; recordingStep is set by the caller
StopCameraEffect(stream) ==
  /\ liveStreams' = IF stream # NoStream THEN liveStreams \ {stream} ELSE liveStreams
  /\ cameraStream' = IF stream # NoStream THEN NoStream ELSE cameraStream
  /\ showCamera' = FALSE

\* startCamera, from the click (Start Face Scan or Rescan; both are covered by
\* the camera modal while it is shown) to the await of getUserMedia
StartCamera ==
  /\ ~showCamera
  /\ cameraRequests < MaxCameraRequests
  /\ error' = Null
  /\ referenceFrames' = <<>>
  /\ recordingStep' = "IDLE"
  /\ cameraRequests' = cameraRequests + 1
  /\ UNCHANGED <<eventPhotos, indexVars, displaySelfie, isScanning, matchedPhotoIds,
                 scanProgress, waSent, scanRuns, progressLog, oracleCalls,
                 serviceFailures, deselected, showCamera, cameraStream,
                 liveStreams, streamCount, sequences, sequenceCount, stopTimers,
                 cancelledSeqs, finished,
                 sessionVars>>

\* getUserMedia resolves with a new stream
CameraGranted ==
  /\ cameraRequests > 0
  /\ streamCount < MaxStreams
  /\ LET stream == <<"stream", streamCount + 1>>
     IN  /\ streamCount' = streamCount + 1
         /\ liveStreams' = liveStreams \cup {stream}
         /\ cameraStream' = stream
  /\ showCamera' = TRUE
  /\ cameraRequests' = cameraRequests - 1
  /\ UNCHANGED <<eventPhotos, indexVars, scanVars, recordingStep, sequences, sequenceCount,
                 stopTimers, cancelledSeqs, finished,
                 sessionVars>>

\* getUserMedia rejects
CameraDenied ==
  /\ cameraRequests > 0
  /\ error' = CameraErrorMessage
  /\ cameraRequests' = cameraRequests - 1
  /\ UNCHANGED <<eventPhotos, indexVars, referenceFrames, displaySelfie, isScanning,
                 matchedPhotoIds, scanProgress, waSent, scanRuns, progressLog,
                 oracleCalls, serviceFailures, deselected, showCamera,
                 cameraStream, recordingStep, liveStreams, streamCount,
                 sequences, sequenceCount, stopTimers, cancelledSeqs, finished,
                 sessionVars>>


\* stopCamera, from the X button of the camera modal
StopCamera ==
  /\ showCamera
  /\ StopCameraEffect(cameraStream)
  /\ recordingStep' = "IDLE"
  /\ cancelledSeqs' = IF recordingStep \in Range(PoseOrder)
                      THEN cancelledSeqs \cup
                             {[seqNo |-> sequences[j].seqNo, stream |-> cameraStream] :
                                j \in DOMAIN sequences}
                      ELSE cancelledSeqs
  /\ UNCHANGED <<eventPhotos, indexVars, scanVars, cameraRequests, streamCount, sequences,
                 sequenceCount, stopTimers, finished,
                 sessionVars>>

\* runRecordingSequence, from the start button shown while recordingStep is
\* IDLE: runStep('STRAIGHT', ...) starts the first interval
RunRecordingSequence ==
  /\ showCamera
  /\ recordingStep = "IDLE"
  /\ sequenceCount < MaxSequences
  /\ sequenceCount' = sequenceCount + 1
  /\ sequences' = Append(sequences,
                         [seqNo |-> sequenceCount + 1, step |-> 1,
                          frames |-> <<>>, stream |-> cameraStream])
  /\ recordingStep' = PoseOrder[1]
  /\ cancelledSeqs' = {}
  /\ UNCHANGED <<eventPhotos, indexVars, scanVars, showCamera, cameraStream, cameraRequests,
                 liveStreams, streamCount, stopTimers, finished,
                 sessionVars>>

RemoveAt(s, j) ==
  [k \in 1 .. Len(s) - 1 |-> IF k < j THEN s[k] ELSE s[k + 1]]

\* sequence j's interval may be the next to see its pose's duration over: every
\* sequence started earlier is further on
MayExpire(j) ==
  \A h \in 1 .. j - 1 : sequences[h].step > sequences[j].step

\* the interval tick of sequence j at which elapsed >= STEP_DURATION, for a
\* pose that is not the last: capture, then runStep of the next pose
PoseExpires(j) ==
  /\ j \in DOMAIN sequences
  /\ MayExpire(j)
  /\ sequences[j].step < Len(PoseOrder)
  /\ \E frame \in CaptureFrame(PoseOrder[sequences[j].step], sequences[j].seqNo) :
       sequences' = [sequences EXCEPT ![j].frames = @ \o frame,
                                      ![j].step = @ + 1]
  /\ recordingStep' = PoseOrder[sequences[j].step + 1]
  /\ UNCHANGED <<eventPhotos, indexVars, scanVars, showCamera, cameraStream, cameraRequests,
                 liveStreams, streamCount, sequenceCount, stopTimers,
                 cancelledSeqs, finished,
                 sessionVars>>

\* finishRecording(frames) called by the sequence whose stopCamera closure
\* holds stream; the caller has just set recordingStep to COMPLETED
FinishRecording(seqNo, frames, stream) ==
  /\ finished' = Append(finished, [seqNo |-> seqNo, frames |-> frames])
  /\ IF Len(frames) > 0
     THEN /\ displaySelfie' = frames[1]
          /\ referenceFrames' = [k \in DOMAIN frames |-> Base64Part(frames[k])]
          /\ matchedPhotoIds' = <<>>
          /\ error' = Null
          /\ waSent' = FALSE
          /\ stopTimers' = Append(stopTimers, stream)
          /\ recordingStep' = "COMPLETED"
          /\ installs' = installs + 1
          /\ delivered' = {}
          /\ UNCHANGED <<showCamera, cameraStream, liveStreams>>
     ELSE /\ error' = CaptureErrorMessage
          /\ StopCameraEffect(stream)
          /\ recordingStep' = "IDLE"
          /\ UNCHANGED <<displaySelfie, referenceFrames, matchedPhotoIds, waSent,
                         stopTimers, installs, delivered>>

\* the interval tick of sequence j that ends the last pose: capture, then
\* setRecordingStep('COMPLETED') and finishRecording(frames)
LastPoseExpires(j) ==
  /\ j \in DOMAIN sequences
  /\ MayExpire(j)
  /\ sequences[j].step = Len(PoseOrder)
  /\ \E frame \in CaptureFrame(PoseOrder[sequences[j].step], sequences[j].seqNo) :
       FinishRecording(sequences[j].seqNo, sequences[j].frames \o frame,
                       sequences[j].stream)
  /\ sequences' = RemoveAt(sequences, j)
  /\ UNCHANGED <<eventPhotos, indexVars, isScanning, scanProgress, scanRuns, progressLog,
                 oracleCalls, serviceFailures, deselected, cameraRequests,
                 streamCount, sequenceCount, cancelledSeqs, selfieLoads,
                 selfieCount, scanClicks>>

\* a setTimeout(() => stopCamera(), 1000) of finishRecording fires
StopTimerFires(t) ==
  /\ t \in DOMAIN stopTimers
  /\ StopCameraEffect(stopTimers[t])
  /\ recordingStep' = "IDLE"
  /\ stopTimers' = RemoveAt(stopTimers, t)
  /\ UNCHANGED <<eventPhotos, indexVars, scanVars, cameraRequests, streamCount, sequences,
                 sequenceCount, cancelledSeqs, finished,
                 sessionVars>>

(***************************************************************************)
(* The capture of one ClientPortal session, from its mount.                *)
(***************************************************************************)
InitCapture ==
  /\ eventPhotos = Gallery(1, 0)
  /\ referenceFrames = <<>>
  /\ displaySelfie = NoSelfie
  /\ isScanning = FALSE
  /\ matchedPhotoIds = <<>>
  /\ scanProgress = 0
  /\ error = Null
  /\ waSent = FALSE
  /\ scanRuns = <<>>
  /\ progressLog = <<>>
  /\ oracleCalls = <<>>
  /\ serviceFailures = {}
  /\ deselected = {}
  /\ NoSelfieLoads
  /\ CameraClosed
  /\ NoDashboard(Len(eventPhotos))

NextCapture ==
  \/ StartCamera
  \/ CameraGranted
  \/ CameraDenied
  \/ StopCamera
  \/ RunRecordingSequence
  \/ \E j \in DOMAIN sequences : PoseExpires(j)
  \/ \E j \in DOMAIN sequences : LastPoseExpires(j)
  \/ \E t \in DOMAIN stopTimers : StopTimerFires(t)

SpecCapture == InitCapture /\ [][NextCapture]_vars

(***************************************************************************)
(* ClientPortal: handleSelfieSelect.  The hidden file input is always       *)
(* rendered; the buttons that open it are covered by the camera modal.      *)
(***************************************************************************)
SelfieErrorMessage == "Failed to process photo. Please try again."

\* the k-th file the guest selects as a selfie
SelfieFile(k) == <<"selfie", k>>

\* handleSelfieSelect with a file, from the change event to the await of
\* resizeImage
HandleSelfieSelect ==
  /\ ~showCamera
  /\ selfieCount < MaxSelfies
  /\ selfieCount' = selfieCount + 1
  /\ displaySelfie' = ObjectUrl(SelfieFile(selfieCount + 1))
  /\ selfieLoads' = Append(selfieLoads, SelfieFile(selfieCount + 1))
  /\ UNCHANGED <<eventPhotos, referenceFrames, isScanning, matchedPhotoIds,
                 scanProgress, error, waSent, scanRuns, progressLog, oracleCalls,
                 serviceFailures, deselected, captureVars, indexVars, installs,
                 delivered, scanClicks>>

\* resizeImage(file, 600) of a handleSelfieSelect invocation resolves
SelfieResolves(j) ==
  /\ j \in DOMAIN selfieLoads
  /\ referenceFrames' = <<ResizeImage(selfieLoads[j])>>
  /\ matchedPhotoIds' = <<>>
  /\ error' = Null
  /\ waSent' = FALSE
  /\ selfieLoads' = RemoveAt(selfieLoads, j)
  /\ installs' = installs + 1
  /\ delivered' = {}
  /\ UNCHANGED <<eventPhotos, displaySelfie, isScanning, scanProgress, scanRuns,
                 progressLog, oracleCalls, serviceFailures, deselected,
                 captureVars, indexVars, selfieCount, scanClicks>>

\* resizeImage(file, 600) of a handleSelfieSelect invocation rejects
SelfieRejects(j) ==
  /\ j \in DOMAIN selfieLoads
  /\ error' = SelfieErrorMessage
  /\ selfieLoads' = RemoveAt(selfieLoads, j)
  /\ UNCHANGED <<eventPhotos, referenceFrames, displaySelfie, isScanning,
                 matchedPhotoIds, scanProgress, waSent, scanRuns, progressLog,
                 oracleCalls, serviceFailures, deselected, captureVars, indexVars,
                 selfieCount, installs, delivered, scanClicks>>

(***************************************************************************)
(* One ClientPortal session from its mount: capture or upload, then scan,  *)
(* over a gallery the photographer left with its last photo unindexed.     *)
(***************************************************************************)
InitClient ==
  /\ eventPhotos \in {Gallery(0, 0), Gallery(MaxClientPhotos, 1)}
  /\ ClientIdle
  /\ NoSelfieLoads
  /\ CameraClosed
  /\ NoDashboard(Len(eventPhotos))

NextClient ==
  \/ NextScan
  \/ (cameraRequests + streamCount < MaxClientCameras /\ StartCamera)
  \/ CameraGranted
  \/ CameraDenied
  \/ StopCamera
  \/ (sequenceCount < MaxClientSequences /\ RunRecordingSequence)
  \/ \E j \in DOMAIN sequences : PoseExpires(j)
  \/ \E j \in DOMAIN sequences : LastPoseExpires(j)
  \/ \E t \in DOMAIN stopTimers : StopTimerFires(t)
  \/ HandleSelfieSelect
  \/ \E j \in DOMAIN selfieLoads : SelfieResolves(j)
  \/ \E j \in DOMAIN selfieLoads : SelfieRejects(j)

SpecClient == InitClient /\ [][NextClient]_vars

(***************************************************************************)
(* PhotographerDashboard: the background processor.  The effect of lines   *)
(* 592-633 runs processNextBatch after the mount and after every render    *)
(* with a new photos array; a processNextBatch closure keeps the photos    *)
(* array of the render that created it.  App keeps eventPhotos while no    *)
(* dashboard is mounted; state updates of an unmounted dashboard are lost. *)
(***************************************************************************)
\* unprocessed.slice(0, 3)
INDEX_BATCH == 3

Unprocessed(p) == ~p.processed

\* the indexer's mutable state as one value
IndexState ==
  [ref |-> processingRef, queue |-> processingQueue, batches |-> batches,
   turn |-> batchTurn]

Ids(photos) == [k \in DOMAIN photos |-> photos[k].id]

\* processNextBatch of instance inst, in a closure over photos, up to its
\* await: the indexer state it leaves
ProcessNextBatch(st, inst, photos) ==
  LET unprocessed == SelectSeq(photos, Unprocessed)
      batch == SubSeq(unprocessed, 1, Min(INDEX_BATCH, Len(unprocessed)))
  IN  IF st.ref[inst] THEN st
      ELSE IF Len(unprocessed) = 0 THEN st
      ELSE [ref |-> [st.ref EXCEPT ![inst] = TRUE],
            queue |-> [st.queue EXCEPT ![inst] = Ids(batch)],
            batches |-> Append(st.batches,
                               [inst |-> inst, photos |-> photos, batch |-> batch]),
            turn |-> [st.turn EXCEPT ![inst] = 1 - @]]

\* the effect's run after a render of instance inst (0: no dashboard) with photos
RunEffect(st, inst, photos) ==
  IF inst = 0 THEN st ELSE ProcessNextBatch(st, inst, photos)

SetIndexState(st) ==
  /\ processingRef' = st.ref
  /\ processingQueue' = st.queue
  /\ batches' = st.batches
  /\ batchTurn' = st.turn

\* "I'm a Photographer" on the landing screen: a new dashboard instance mounts
MountDashboard ==
  /\ dashboard = 0
  /\ mountCount < MaxMounts
  /\ LET inst == mountCount + 1
     IN  /\ dashboard' = inst
         /\ mountCount' = inst
         /\ SetIndexState(RunEffect([ref |-> Append(processingRef, FALSE),
                                     queue |-> Append(processingQueue, <<>>),
                                     batches |-> batches,
                                     turn |-> Append(batchTurn, 0)],
                                    inst, eventPhotos))
  /\ UNCHANGED <<eventPhotos, scanVars, captureVars, retriggers, uploadCount,
                 sessionVars>>

\* "Exit Dashboard": the dashboard unmounts; its promises and timers stay
UnmountDashboard ==
  /\ dashboard # 0
  /\ dashboard' = 0
  /\ UNCHANGED <<eventPhotos, scanVars, captureVars, mountCount, processingRef,
                 processingQueue, batches, retriggers, uploadCount, batchTurn,
                 sessionVars>>

\* processFiles(files) with n files, from a drop or the file input
ProcessFiles(n) ==
  /\ dashboard # 0
  /\ uploadCount + n <= MaxUploads
  /\ LET newPhotos == [k \in 1 .. n |-> NewPhoto(uploadCount + k)]
     IN  /\ eventPhotos' = eventPhotos \o newPhotos
         /\ SetIndexState(RunEffect(IndexState, dashboard, eventPhotos \o newPhotos))
  /\ uploadCount' = uploadCount + n
  /\ UNCHANGED <<scanVars, captureVars, dashboard, mountCount, retriggers,
                 sessionVars>>

\* clearGallery, confirmed
ClearGallery ==
  /\ dashboard # 0
  /\ eventPhotos' = <<>>
  /\ SetIndexState(RunEffect(IndexState, dashboard, <<>>))
  /\ UNCHANGED <<scanVars, captureVars, dashboard, mountCount, retriggers,
                 uploadCount,
                 sessionVars>>

\* an updater that sets the flag and attaches nothing
MarkProcessedOnly(prev, batch) ==
  [k \in DOMAIN prev |->
     IF \E u \in DOMAIN batch : batch[u].id = prev[k].id
     THEN [prev[k] EXCEPT !.processed = TRUE]
     ELSE prev[k]]

\* the collection replaced by the batch's photos, updated, whatever it holds
ReplaceByBatch(prev, batch) ==
  [k \in DOMAIN batch |-> IndexedPhoto(batch[k])]

\* prev.map(p => updates.find(u => u.id === p.id) ? {...p, processed: true,
\* optimizedBase64} : p) for the updates of batch
ApplyUpdates(prev, batch) ==
  [k \in DOMAIN prev |->
     IF \E u \in DOMAIN batch : batch[u].id = prev[k].id
     THEN LET u == CHOOSE u \in DOMAIN batch : batch[u].id = prev[k].id
          IN  [prev[k] EXCEPT !.processed = TRUE,
                              !.optimizedBase64 = ResizeImage(batch[u].file)]
     ELSE prev[k]]

\* a finally block that clears the queue and leaves processingRef.current set
FinallyKeepsGuard(st, b) ==
  [ref |-> st.ref,
   queue |-> [st.queue EXCEPT ![batches[b].inst] = <<>>],
   batches |-> RemoveAt(st.batches, b),
   turn |-> st.turn]

\* the finally block of the invocation b: queue cleared, guard released, and
\* the re-trigger timer set, since the closure's photos still hold the batch
\* as unprocessed
FinallyOf(st, b) ==
  [ref |-> [st.ref EXCEPT ![batches[b].inst] = FALSE],
   queue |-> [st.queue EXCEPT ![batches[b].inst] = <<>>],
   batches |-> RemoveAt(st.batches, b),
   turn |-> st.turn]

Retrigger(b) ==
  IF \E k \in DOMAIN batches[b].photos : ~batches[b].photos[k].processed
  THEN <<[inst |-> batches[b].inst, photos |-> batches[b].photos]>>
  ELSE <<>>

\* Promise.all of invocation b settles: it resolves when no resizeImage of the
\* batch rejects (failed is empty) and rejects otherwise
BatchSettles(b, failed) ==
  /\ b \in DOMAIN batches
  /\ failed \subseteq Range(Ids(batches[b].batch))
  /\ Len(retriggers) < MaxTimers
  /\ retriggers' = retriggers \o Retrigger(b)
  /\ IF failed = {}
     THEN LET photos == ApplyUpdates(eventPhotos, batches[b].batch)
          IN  /\ eventPhotos' = photos
              /\ SetIndexState(RunEffect(FinallyOf(IndexState, b), dashboard, photos))
     ELSE /\ eventPhotos' = eventPhotos
          /\ SetIndexState(FinallyOf(IndexState, b))
  /\ UNCHANGED <<scanVars, captureVars, dashboard, mountCount, uploadCount,
                 sessionVars>>

\* a setTimeout(processNextBatch, 100) callback runs
RetriggerFires(t) ==
  /\ t \in DOMAIN retriggers
  /\ retriggers' = RemoveAt(retriggers, t)
  /\ SetIndexState(ProcessNextBatch(IndexState, retriggers[t].inst,
                                    retriggers[t].photos))
  /\ UNCHANGED <<eventPhotos, scanVars, captureVars, dashboard, mountCount,
                 uploadCount,
                 sessionVars>>

(***************************************************************************)
(* The gallery from the start of the App, no dashboard mounted yet.        *)
(***************************************************************************)
InitIndex ==
  /\ eventPhotos = <<>>
  /\ ClientIdle
  /\ NoSelfieLoads
  /\ CameraClosed
  /\ NoDashboard(0)

NextIndex ==
  \/ MountDashboard
  \/ UnmountDashboard
  \/ \E n \in 1 .. MaxFilesPerDrop : ProcessFiles(n)
  \/ ClearGallery
  \/ \E b \in DOMAIN batches :
       \E failed \in SUBSET Range(Ids(batches[b].batch)) : BatchSettles(b, failed)
  \/ \E t \in DOMAIN retriggers : RetriggerFires(t)

SpecIndex == InitIndex /\ [][NextIndex]_vars

\* the Promise.all of the batch that instance inst has in flight settles
BatchSettlesOf(inst) ==
  \E b \in DOMAIN batches :
    /\ batches[b].inst = inst
    /\ \E failed \in SUBSET Range(Ids(batches[b].batch)) : BatchSettles(b, failed)

\* every resizeImage call settles (with a representation or a DecodeError), so
\* the Promise.all of every batch settles; every timer that was set fires
FairIndex ==
  /\ SF_vars(BatchSettlesOf(1))
  /\ WF_vars(\E t \in DOMAIN retriggers : RetriggerFires(t))

\* the indexer of the first dashboard instance, from its mount on, over at
\* most MaxFairUploads photos
NextIndexFair ==
  \/ (mountCount = 0 /\ MountDashboard)
  \/ UnmountDashboard
  \/ \E n \in 1 .. MaxFilesPerDrop :
       uploadCount + n <= MaxFairUploads /\ ProcessFiles(n)
  \/ ClearGallery
  \/ BatchSettlesOf(1)
  \/ \E t \in DOMAIN retriggers : RetriggerFires(t)

SpecIndexFair == InitIndex /\ [][NextIndexFair]_vars /\ FairIndex

(***************************************************************************)
(* The scan of a guest who came in through the dashboard's switch to the   *)
(* client view (onSwitchMode(AppMode.CLIENT)) while the first dashboard    *)
(* instance had a batch in flight: the batch's promises and timers go on   *)
(* and write to App's eventPhotos.                                         *)
(***************************************************************************)
\* the indexer of a first dashboard instance that has nothing in flight
IdleIndexer ==
  [ref |-> <<FALSE>>, queue |-> <<<<>>>>, batches |-> <<>>, turn |-> <<0>>]

InitHandover ==
  /\ ScanReady(Null)
  /\ referenceFrames # <<>>
  /\ Len(eventPhotos) <= MaxHandoverPhotos
  /\ \E k \in DOMAIN eventPhotos : ~eventPhotos[k].processed
  /\ dashboard = 0
  /\ mountCount = 1
  /\ LET st == ProcessNextBatch(IdleIndexer, 1, eventPhotos)
     IN  /\ processingRef = st.ref
         /\ processingQueue = st.queue
         /\ batches = st.batches
         /\ batchTurn = st.turn
  /\ retriggers = <<>>
  /\ uploadCount = Len(eventPhotos)

NextHandover ==
  \/ NextScan
  \/ \E b \in DOMAIN batches :
       \E failed \in SUBSET Range(Ids(batches[b].batch)) : BatchSettles(b, failed)
  \/ \E t \in DOMAIN retriggers : RetriggerFires(t)

SpecHandover == InitHandover /\ [][NextHandover]_vars

(***************************************************************************)
(* Properties of the scan                                                  *)
(***************************************************************************)
\* a startScan run was made and has returned
RunEnded == scanRuns = <<>> /\ progressLog # <<>>

\* the ids of the photos handed to the scan
CandidateIds == {eventPhotos[k].id : k \in DOMAIN eventPhotos}

\* the ids of the candidates at positions lo .. hi of the candidate list
IdsAt(lo, hi) == {eventPhotos[k].id : k \in (lo .. hi) \cap DOMAIN eventPhotos}

NoDuplicates(s) == \A a, b \in DOMAIN s : s[a] = s[b] => a = b

\* C1: when the matching service fails during chunk k >= 2, the scan ends
\* FAILED (error shown, isScanning false), matchedPhotoIds holds only ids of
\* chunks 1 .. k-1, and no findFaceMatches call is made for a chunk after k.
C1_ServiceFailureAbortsScan ==
  \A k \in serviceFailures :
    k >= 2 =>
      /\ RunEnded
      /\ error = ScanErrorMessage
      /\ ~isScanning
      /\ Range(matchedPhotoIds) \subseteq IdsAt(1, BATCH_SIZE * (k - 1))
      /\ \A c \in DOMAIN oracleCalls : oracleCalls[c].chunkNo <= k

\* C4: the scanProgress values one run publishes never decrease, scanProgress
\* is the last value published, and a run that ends without error ends at 100.
C4_ProgressMonotone ==
  /\ \A j \in 1 .. Len(progressLog) - 1 : progressLog[j] <= progressLog[j + 1]
  /\ progressLog # <<>> => scanProgress = progressLog[Len(progressLog)]
  /\ (RunEnded /\ error = Null) => scanProgress = 100

\* a run over 10 candidates ended without error after publishing 0, 40, 80, 100
C4_Witness ==
  /\ RunEnded
  /\ error = Null
  /\ Len(eventPhotos) = 10
  /\ progressLog = <<0, 40, 80, 100, 100>>

\* C5: every id in matchedPhotoIds, and every id a run has collected, is the
\* id of a candidate of the scan, whatever indices the service answers with.
C5_MatchedAreCandidates ==
  /\ Range(matchedPhotoIds) \subseteq CandidateIds
  /\ \A r \in DOMAIN scanRuns : Range(scanRuns[r].foundMatches) \subseteq CandidateIds

\* the service answered an earlier chunk with matches and a later one with an
\* index outside its chunk: the run ended with the error and the earlier ids
C5_Witness ==
  /\ RunEnded
  /\ error = ScanErrorMessage
  /\ \A k \in DOMAIN eventPhotos : eventPhotos[k].processed
  /\ matchedPhotoIds # <<>>

\* C6: after a run that ended without error, matchedPhotoIds holds no id twice.
C6_NoDuplicateMatches ==
  (RunEnded /\ error = Null) => NoDuplicates(matchedPhotoIds)

\* C9: an id removed by handleDeselect since the scan started is not in
\* matchedPhotoIds, in the state after the removal and in every later one.
C9_DeselectedStayOut ==
  \A d \in deselected : d.id \notin Range(matchedPhotoIds)

\* an id was deselected, later chunks were sent to the service after that, and
\* the run ended with ids of those later chunks matched
C9_Witness ==
  /\ RunEnded
  /\ \E d \in deselected :
       /\ d.calls < Len(oracleCalls)
       /\ \E m \in Range(matchedPhotoIds) :
            m \in IdsAt(BATCH_SIZE * d.calls + 1, Len(eventPhotos))

\* the representations of the candidates at positions lo .. hi, in order
RepresentationsAt(lo, hi) ==
  [j \in 1 .. (hi - lo + 1) |-> ResizeImage(eventPhotos[lo + j - 1].file)]

\* C10: the k-th findFaceMatches call of a run receives the candidates at
\* positions 4(k-1) .. min(4k, n)-1 (counted from 0) in their order, and a run
\* over n >= 1 candidates that ends without error has made ceil(n/4) calls.
C10_ChunksOfFour ==
  /\ \A k \in DOMAIN oracleCalls :
       /\ oracleCalls[k].chunkNo = k
       /\ oracleCalls[k].candidates =
            RepresentationsAt(4 * (k - 1) + 1, Min(4 * k, Len(eventPhotos)))
  /\ (RunEnded /\ error = Null) => Len(oracleCalls) = (Len(eventPhotos) + 3) \div 4

\* a run over 10 candidates ended without error after calls of 4, 4 and 2
C10_Witness ==
  /\ RunEnded
  /\ error = Null
  /\ Len(eventPhotos) = 10
  /\ Len(oracleCalls) = 3
  /\ Len(oracleCalls[1].candidates) = 4
  /\ Len(oracleCalls[2].candidates) = 4
  /\ Len(oracleCalls[3].candidates) = 2


\* C24: a startScan invocation with a non-empty ReferenceSet and a non-empty
\* gallery leaves, at its first await and before any answer of the service is
\* handled, matchedPhotoIds empty, scanProgress 0, the error cleared and
\* isScanning true, with the run it started in flight.
C24_StartResetsSession ==
  [][(scanClicks' # scanClicks
        /\ Len(referenceFrames) # 0 /\ Len(eventPhotos) # 0) =>
       /\ matchedPhotoIds' = <<>>
       /\ scanProgress' = 0
       /\ error' = Null
       /\ isScanning'
       /\ Len(scanRuns') = Len(scanRuns) + 1
       /\ progressLog' = <<0>>]_vars

\* a run was started while the camera's error message was shown: the message
\* is cleared, the run is waiting for its first answer, nothing is published
C24_Witness ==
  /\ Len(scanRuns) = 1
  /\ scanRuns[1].errorAtStart = CameraErrorMessage
  /\ scanRuns[1].i = 0
  /\ isScanning
  /\ error = Null
  /\ scanProgress = 0
  /\ matchedPhotoIds = <<>>

\* C14: a startScan invocation with an empty ReferenceSet or an empty gallery
\* changes none of isScanning, scanProgress, matchedPhotoIds, error, waSent,
\* starts no run (no normalization) and makes no findFaceMatches call.
C14_EmptyScanIsNoOp ==
  [][(scanClicks' # scanClicks
        /\ (Len(referenceFrames) = 0 \/ Len(eventPhotos) = 0)) =>
       UNCHANGED <<isScanning, scanProgress, matchedPhotoIds, error, waSent,
                   scanRuns, oracleCalls, progressLog>>]_vars

\* startScan was invoked with an empty ReferenceSet over a gallery with photos
\* and nothing was started
C14_Witness ==
  /\ scanClicks > 0
  /\ Len(referenceFrames) = 0
  /\ Len(eventPhotos) > 0
  /\ scanRuns = <<>>
  /\ progressLog = <<>>

\* C15: for the non-empty candidate batch of every findFaceMatches call a run
\* is waiting on, whatever service failure occurs (request rejected, response
\* malformed), the promise findFaceMatches returns is not the one resolved
\* with the empty array that stands for "no matches".
C15_ServiceFailureIsSignalled ==
  \A r \in DOMAIN scanRuns :
    (scanRuns[r].pc = "oracle" /\ Len(scanRuns[r].candidateBase64s) > 0) =>
      \A resp \in ServiceResponses :
        IsServiceFailure(resp) =>
          FindFaceMatches(scanRuns[r].referenceFrames,
                          scanRuns[r].candidateBase64s, resp) # Resolved(<<>>)

\* the candidate at position k (from 1) of the chunk with this number
ChunkCandidate(chunkNo, k) == eventPhotos[BATCH_SIZE * (chunkNo - 1) + k]

\* by how many ids matchedPhotoIds grows in this step
Grown == Len(matchedPhotoIds') - Len(matchedPhotoIds)

\* the index arrays of n indices: the only answers after which matchedPhotoIds
\* has grown by n ids
AnswersOfLength(n) == {matches \in IndexArrays : Len(matches) = n}

\* C20: the representation at position k of every findFaceMatches call is the
\* one of the candidate at position k of its chunk, in whatever order the
\* chunk's normalizations completed; and when the service answers a call with
\* indices inside the chunk, the ids appended to matchedPhotoIds are those of
\* the candidates at these positions, in the order of the answer.
C20_IndexMappingKeepsChunkOrder ==
  [][/\ \A c \in DOMAIN oracleCalls' :
          \A k \in DOMAIN oracleCalls'[c].candidates :
            oracleCalls'[c].candidates[k] =
              ResizeImage(ChunkCandidate(oracleCalls'[c].chunkNo, k).file)
     /\ \A r \in DOMAIN scanRuns : \A matches \in AnswersOfLength(Grown) :
          (/\ \A j \in DOMAIN matches :
                matches[j] < Len(scanRuns[r].candidateBase64s)
           /\ OracleReturn(r, [kind |-> "json", matches |-> matches])) =>
            matchedPhotoIds' =
              matchedPhotoIds \o
                [j \in DOMAIN matches |->
                   ChunkCandidate((scanRuns[r].i \div BATCH_SIZE) + 1,
                                  matches[j] + 1).id]]_vars

\* a run ended without error in which the normalization that resolved first
\* in a chunk was not the one of the chunk's first unindexed candidate, and
\* the candidate normalized first was matched
C20_Witness ==
  /\ RunEnded
  /\ error = Null
  /\ \E c \in DOMAIN oracleCalls :
       /\ \E k \in 1 .. oracleCalls[c].firstDone - 1 :
            ~ChunkCandidate(oracleCalls[c].chunkNo, k).processed
       /\ ChunkCandidate(oracleCalls[c].chunkNo, oracleCalls[c].firstDone).id
            \in Range(matchedPhotoIds)

\* the ids handleDeselect removed since the scan started
DeselectedIds == {d.id : d \in deselected}

\* s without the ids handleDeselect removed
NotDeselected(id) == id \notin DeselectedIds
StillSelected(s) == SelectSeq(s, NotDeselected)

\* C25: while a run is in flight that has handled the answers for chunks
\* 1 .. k, through the preparation of chunk k+1 and the issue of its
\* findFaceMatches call, matchedPhotoIds holds the ids matched in chunks 1 .. k
\* in the order the run collected them (less those the guest deselected) and
\* scanProgress is the value for chunk k; the call for chunk k+1 is the last
\* one issued.
C25_PublishedAfterEachChunk ==
  \A r \in DOMAIN scanRuns :
    LET run == scanRuns[r]
        k == run.i \div BATCH_SIZE
        n == Len(run.photosToScan)
    IN  /\ matchedPhotoIds = StillSelected(run.foundMatches)
        /\ scanProgress = IF k = 0 THEN 0
                          ELSE Min(100, RoundPercent(BATCH_SIZE * k, n))
        /\ Len(progressLog) = k + 1
        /\ Len(oracleCalls) = IF run.pc = "oracle" THEN k + 1 ELSE k

\* over 10 candidates the service answered chunk 1 with its last and its
\* first candidate: both ids are published in that order and scanProgress is 40
\* while the call for chunk 2 is pending
C25_Witness ==
  /\ Len(scanRuns) = 1
  /\ scanRuns[1].pc = "oracle"
  /\ Len(eventPhotos) = 10
  /\ Len(oracleCalls) = 2
  /\ matchedPhotoIds = <<eventPhotos[4].id, eventPhotos[1].id>>
  /\ scanProgress = 40

\* the findFaceMatches calls of the run in flight that have returned: one
\* value was published per answer after the initial 0
Answered == Len(progressLog) - 1

\* C26: while a run is at chunk k, every findFaceMatches call for chunks
\* 1 .. k-1 has returned, at most one call (the one for chunk k) has not, the
\* normalizations under way are those of chunk k alone, and none of them is
\* pending while the call for chunk k is in flight.
C26_ChunksStrictlySequential ==
  \A r \in DOMAIN scanRuns :
    LET run == scanRuns[r]
        k == (run.i \div BATCH_SIZE) + 1
    IN  /\ Answered = k - 1
        /\ Len(oracleCalls) - Answered \in {0, 1}
        /\ \A c \in DOMAIN oracleCalls : oracleCalls[c].chunkNo <= k
        /\ DOMAIN run.candidateBase64s = DOMAIN Chunk(run.photosToScan, run.i)
        /\ (\E j \in DOMAIN run.candidateBase64s : run.candidateBase64s[j] = Pending)
             => Len(oracleCalls) = Answered

\* over 10 candidates with the last two not indexed, the calls for chunks 1 and
\* 2 have returned and the run is normalizing chunk 3, one of the two
\* normalizations done, no call in flight
C26_Witness ==
  /\ Len(scanRuns) = 1
  /\ Len(eventPhotos) = 10
  /\ scanRuns[1].i = 2 * BATCH_SIZE
  /\ scanRuns[1].pc = "normalize"
  /\ scanRuns[1].firstDone # 0
  /\ Len(oracleCalls) = 2
  /\ Answered = 2

\* the run at position r enters a chunk in this step: it starts, or its loop
\* goes on to the next offset
ChunkEntered(r) ==
  \/ r \notin DOMAIN scanRuns
  \/ scanRuns'[r].i # scanRuns[r].i

\* the photo of the collection with this id
PhotoOf(photos, id) ==
  photos[CHOOSE k \in DOMAIN photos : photos[k].id = id]

\* C27: a run's candidates are all the photos of the gallery, processed or
\* not; and when a run enters a chunk, every candidate of the chunk that
\* carries an optimizedBase64 in the collection at that moment is given to the
\* service by that representation, with no resizeImage call started for it.
C27_CachedRepresentationPreferred ==
  [][\A r \in DOMAIN scanRuns' :
       ChunkEntered(r) =>
         LET run == scanRuns'[r]
             chunk == Chunk(run.photosToScan, run.i)
         IN  /\ Ids(run.photosToScan) = Ids(eventPhotos)
             /\ \A j \in DOMAIN chunk :
                  LET p == PhotoOf(eventPhotos, chunk[j].id)
                  IN  p.optimizedBase64 # NoBase64 =>
                        run.candidateBase64s[j] = p.optimizedBase64]_vars

\* the run r leaves its loop in this step with every chunk handled: the last
\* chunk's progress is published, then the finally block's
ExhaustedAllChunks(r) ==
  /\ scanRuns[r].pc = "oracle"
  /\ scanRuns' = RemoveRun(r)
  /\ Len(progressLog') = Len(progressLog) + 2

\* C30: a run that handles the answer for its last chunk without an exception
\* ends with isScanning false, no error set and scanProgress 100, having made
\* ceil(n / 4) findFaceMatches calls, for every number n >= 1 of candidates.
C30_ExhaustedRunEndsDone ==
  [][\A r \in DOMAIN scanRuns :
       ExhaustedAllChunks(r) =>
         /\ ~isScanning'
         /\ error' = Null
         /\ scanProgress' = 100
         /\ Len(scanRuns[r].photosToScan) >= 1
         /\ Len(oracleCalls') = (Len(scanRuns[r].photosToScan) + 3) \div 4]_vars

\* a run over 9 candidates has ended without error after three calls, the last
\* one for a chunk of one candidate, publishing 0, 44, 89, 100 and 100
C30_Witness ==
  /\ RunEnded
  /\ error = Null
  /\ ~isScanning
  /\ scanProgress = 100
  /\ Len(eventPhotos) = 9
  /\ progressLog = <<0, 44, 89, 100, 100>>

\* C33: when a run ends, scanProgress is min(100, round(100 * processed / n))
\* for the number of candidates whose chunks the run has handled: all n after
\* the last chunk's answer, and the candidates before the chunk at which the
\* run failed otherwise.
C33_ProgressIsFractionProcessed ==
  [][\A r \in DOMAIN scanRuns :
       scanRuns' = RemoveRun(r) =>
         LET n == Len(scanRuns[r].photosToScan)
             processed == IF ExhaustedAllChunks(r) THEN n
                          ELSE Min(scanRuns[r].i, n)
         IN  scanProgress' = Min(100, RoundPercent(processed, n))]_vars

\* the run r, waiting for the normalizations of its chunk, ends in this step:
\* one of them has failed
NormalizationFailed(r) ==
  /\ scanRuns[r].pc = "normalize"
  /\ scanRuns' = RemoveRun(r)

\* C21: when the normalization of a candidate fails while a run prepares
\* chunk k, the run ends with the error shown and isScanning false, the
\* findFaceMatches calls made are those of chunks 1 .. k-1, the ids matched in
\* these chunks stay in matchedPhotoIds, and no call is made after the run's end.
C21_NormalizationFailureAbortsScan ==
  [][/\ \A r \in DOMAIN scanRuns :
          NormalizationFailed(r) =>
            LET k == (scanRuns[r].i \div BATCH_SIZE) + 1
            IN  /\ error' = ScanErrorMessage
                /\ ~isScanning'
                /\ Len(oracleCalls') = k - 1
                /\ \A c \in DOMAIN oracleCalls' : oracleCalls'[c].chunkNo < k
                /\ matchedPhotoIds' = matchedPhotoIds
                /\ Range(scanRuns[r].foundMatches) \ DeselectedIds
                      \subseteq Range(matchedPhotoIds')
     /\ (scanRuns = <<>> /\ scanClicks' = scanClicks) =>
          oracleCalls' = oracleCalls]_vars

\* over 5 candidates of which the last is not indexed, the first chunk gave
\* matches and the normalization for the second failed: the run has ended with
\* the error after one findFaceMatches call, the matches kept
C21_Witness ==
  /\ RunEnded
  /\ error = ScanErrorMessage
  /\ ~isScanning
  /\ Len(eventPhotos) = 5
  /\ ~eventPhotos[5].processed
  /\ Len(oracleCalls) = 1
  /\ matchedPhotoIds # <<>>

(***************************************************************************)
(* Properties of the capture                                               *)
(***************************************************************************)
\* f is the base64 part of a frame captured by sequence seqNo
IsFrameOf(f, seqNo) == f[1] = "frame" /\ f[3] = seqNo

\* u is the data URL of a frame captured by sequence seqNo
IsDataUrlOf(u, seqNo) ==
  /\ u # NoSelfie
  /\ u[1] = "data:image/jpeg;base64"
  /\ IsFrameOf(u[2], seqNo)

\* C2: after stopCamera cancelled a sequence during a pose, and as long as no
\* new sequence is started, no frame of the cancelled sequence is in
\* referenceFrames or displaySelfie, and the tracks of the stream that was
\* shown are stopped.
C2_CancelYieldsNoReferenceSet ==
  \A c \in cancelledSeqs :
    /\ \A k \in DOMAIN referenceFrames : ~IsFrameOf(referenceFrames[k], c.seqNo)
    /\ ~IsDataUrlOf(displaySelfie, c.seqNo)
    /\ c.stream \notin liveStreams

\* the frames the four poses give sequence seqNo when every capture succeeds
FourFrames(seqNo) ==
  <<DataUrl("STRAIGHT", seqNo), DataUrl("LEFT", seqNo),
    DataUrl("RIGHT", seqNo), DataUrl("SMILE", seqNo)>>

\* finishRecording is called in this step
FinishRecordingCalled == Len(finished') = Len(finished) + 1

C12_ReplacementInvalidatesMatches ==
  \A d \in delivered : d.install = installs

\* C17: a sequence in which a capture gave no frame at the end of a pose does
\* not go on to the next pose, does not reach COMPLETED and installs none of
\* its frames as the ReferenceSet.
C17_FailedCaptureHalts ==
  /\ \A j \in DOMAIN sequences :
       Len(sequences[j].frames) = sequences[j].step - 1
  /\ \A k \in DOMAIN finished :
       Len(finished[k].frames) < Len(PoseOrder) =>
         /\ \A f \in DOMAIN referenceFrames :
              ~IsFrameOf(referenceFrames[f], finished[k].seqNo)
         /\ ~IsDataUrlOf(displaySelfie, finished[k].seqNo)

\* C18: at most one startScan run is in flight at any time, and isScanning is
\* true exactly while a run is in flight, so that no second run begins between
\* a run's setIsScanning(true) and its setIsScanning(false).
C18_OneScanInFlight ==
  /\ Len(scanRuns) <= 1
  /\ isScanning <=> scanRuns # <<>>

\* a run is in flight whose ReferenceSet was replaced meanwhile, the matches
\* are reset and the results section is in view
C18_Witness ==
  /\ Len(scanRuns) = 1
  /\ isScanning
  /\ scanRuns[1].install < installs
  /\ matchedPhotoIds = <<>>
  /\ displaySelfie # NoSelfie
  /\ ~showCamera

\* States, in fixed order
StepOrder == <<"IDLE", "STRAIGHT", "LEFT", "RIGHT", "SMILE", "COMPLETED">>

\* b follows a in the fixed order
NextInOrder(a, b) ==
  \E k \in 1 .. Len(StepOrder) - 1 : StepOrder[k] = a /\ StepOrder[k + 1] = b

\* C23: recordingStep changes only to the next state of the fixed order or
\* back to IDLE, and it leaves IDLE only for STRAIGHT in a step in which the
\* start trigger starts a sequence.
C23_StepsFollowTheOrder ==
  [][recordingStep' # recordingStep =>
       /\ recordingStep' = "IDLE" \/ NextInOrder(recordingStep, recordingStep')
       /\ recordingStep = "IDLE" =>
            /\ recordingStep' = "STRAIGHT"
            /\ sequenceCount' = sequenceCount + 1]_vars

\* C31: whenever displaySelfie is set, referenceFrames is not empty: after the
\* camera was opened for a rescan and cancelled, after getUserMedia was
\* refused, and while or after the normalization of an uploaded selfie fails.
C31_ThumbnailHasReferenceSet ==
  displaySelfie # NoSelfie => Len(referenceFrames) > 0

\* C32: whenever no scan is running, the ReferenceSet and the gallery are not
\* empty and the camera modal does not cover the page, the Find Matches button
\* is there for the guest, also after a scan has ended and the ReferenceSet
\* was replaced.
C32_ScanCanBeStarted ==
  (/\ ~isScanning
   /\ Len(referenceFrames) > 0
   /\ Len(eventPhotos) > 0
   /\ ~showCamera) => FindMatchesShown

\* C11: whenever the capture UI is closed (after the X button, after the
\* completion of a sequence, after a capture error), no stream that
\* getUserMedia handed out has running tracks.
C11_ClosedCameraHoldsNoStream ==
  ~showCamera => liveStreams = {}


(***************************************************************************)
(* Properties of the indexing                                              *)
(***************************************************************************)
\* the photo of the collection with this id is processed with its normalized
\* representation attached
IndexedIn(photos, id) ==
  \A k \in DOMAIN photos :
    photos[k].id = id =>
      /\ photos[k].processed
      /\ photos[k].optimizedBase64 = ResizeImage(photos[k].file)

\* the photo of the collection with this id is marked processed
ProcessedIn(photos, id) ==
  \E k \in DOMAIN photos : photos[k].id = id /\ photos[k].processed

\* C3: when a batch settles in which the normalization of some photos failed,
\* every other photo of the batch is marked processed with its optimizedBase64
\* attached, and a failed photo that was not processed stays unprocessed.
C3_FailureSparesTheOthers ==
  [][\A b \in DOMAIN batches :
       \A failed \in SUBSET Range(Ids(batches[b].batch)) :
         BatchSettles(b, failed) =>
           /\ \A id \in Range(Ids(batches[b].batch)) \ failed :
                IndexedIn(eventPhotos', id)
           /\ \A id \in failed :
                ~ProcessedIn(eventPhotos, id) => ~ProcessedIn(eventPhotos', id)]_vars

\* C7: at most one processNextBatch invocation is between the start of its
\* batch's normalization and the batch's end.
C7_OneBatchInFlight == Len(batches) <= 1

\* C16: no photo that is marked processed in the collection is in a batch
\* whose normalization is under way, so no processed photo is normalized or
\* written again.
C16_IndexedOnce ==
  \A b \in DOMAIN batches :
    \A id \in Range(Ids(batches[b].batch)) : ~ProcessedIn(eventPhotos, id)

\* no photo of the collection has processed = false
NothingPending(photos) == \A k \in DOMAIN photos : photos[k].processed

\* a processNextBatch invocation starts a batch in this step
BatchStarted ==
  \E inst \in DOMAIN batchTurn' :
    batchTurn'[inst] # (IF inst \in DOMAIN batchTurn THEN batchTurn[inst] ELSE 0)

\* C19: a step that leaves the collection without an unprocessed photo (all
\* indexed, or the gallery cleared) starts no batch and sets no re-trigger
\* timer.
C19_IdleWhenNothingPending ==
  [][NothingPending(eventPhotos') =>
       /\ ~BatchStarted
       /\ Len(retriggers') <= Len(retriggers)]_vars

\* C22: when a batch settles, the collection keeps its sequence of ids (what
\* was uploaded meanwhile is kept, a gallery cleared meanwhile stays empty), no
\* photo's file changes, and a photo changes only if it belongs to the batch.
C22_CompletionUpdatesInPlace ==
  [][\A b \in DOMAIN batches :
       \A failed \in SUBSET Range(Ids(batches[b].batch)) :
         BatchSettles(b, failed) =>
           /\ Ids(eventPhotos') = Ids(eventPhotos)
           /\ \A k \in DOMAIN eventPhotos :
                /\ eventPhotos'[k].file = eventPhotos[k].file
                /\ eventPhotos'[k] # eventPhotos[k] =>
                     eventPhotos[k].id \in Range(Ids(batches[b].batch))]_vars

\* a batch over the first photo alone has settled (its closure waits in a
\* timer) and the collection holds that photo processed, followed by a photo
\* the batch's closure never saw, still unprocessed
C22_Witness ==
  /\ Len(eventPhotos) >= 2
  /\ eventPhotos[1].processed
  /\ ~eventPhotos[2].processed
  /\ \E t \in DOMAIN retriggers :
       /\ Len(retriggers[t].photos) = 1
       /\ retriggers[t].photos[1].id = eventPhotos[1].id

\* every processed photo of the collection carries the representation of
\* its file
ProcessedHaveRepresentation(photos) ==
  \A k \in DOMAIN photos :
    photos[k].processed => photos[k].optimizedBase64 = ResizeImage(photos[k].file)

\* C28: in every state of the collection a photo with processed = true has
\* its optimizedBase64 attached, and no step takes a photo that stays in the
\* collection from processed = true to processed = false.
C28_ProcessedIsStable ==
  [][/\ ProcessedHaveRepresentation(eventPhotos)
     /\ ProcessedHaveRepresentation(eventPhotos')
     /\ \A k \in DOMAIN eventPhotos : \A h \in DOMAIN eventPhotos' :
          (eventPhotos'[h].id = eventPhotos[k].id /\ eventPhotos[k].processed)
            => eventPhotos'[h].processed]_vars

\* a photo marked processed is in the batch of a re-triggered invocation that
\* is under way, next to a photo uploaded since that is not processed
C28_Witness ==
  /\ \E b \in DOMAIN batches :
       \E id \in Range(Ids(batches[b].batch)) : ProcessedIn(eventPhotos, id)
  /\ \E k \in DOMAIN eventPhotos : ~eventPhotos[k].processed
  /\ ProcessedHaveRepresentation(eventPhotos)

\* C29: a batch that starts consists of 1 to 3 distinct photos, the first
\* ones in gallery order that have processed = false in the collection at that
\* moment; and for every batch in flight the processingQueue of its dashboard
\* instance is the batch's ids.
C29_BatchIsFirstPending ==
  [][/\ BatchStarted =>
          LET started == batches'[Len(batches')].batch
              pending == SelectSeq(eventPhotos', Unprocessed)
          IN  /\ Len(started) \in 1 .. 3
              /\ NoDuplicates(Ids(started))
              /\ Ids(started) = Ids(SubSeq(pending, 1, Min(3, Len(pending))))
     /\ \A b \in DOMAIN batches' :
          processingQueue'[batches'[b].inst] = Ids(batches'[b].batch)]_vars

\* instance inst has a batch in flight, the one of its turn e
InFlight(inst, e) ==
  /\ inst \in DOMAIN processingRef
  /\ processingRef[inst]
  /\ batchTurn[inst] = e

\* that batch is over: the guard is released and the in-flight marker empty,
\* or the guard was released and taken again by the instance's next batch
Finished(inst, e) ==
  /\ inst \in DOMAIN processingRef
  /\ \/ ~processingRef[inst] /\ processingQueue[inst] = <<>>
     \/ batchTurn[inst] # e

\* C13: every batch that starts finishes, whether its normalizations succeed
\* or fail, and at its end processingQueue is empty and the guard released.
C13_BatchesFinish ==
  \A e \in {0, 1} : InFlight(1, e) ~> Finished(1, e)

\* a batch ended with a failed normalization: guard released, marker empty,
\* its photos still unprocessed
C13_Witness ==
  /\ batches = <<>>
  /\ retriggers # <<>>
  /\ \E inst \in DOMAIN processingRef :
       /\ batchTurn[inst] = 1
       /\ ~processingRef[inst]
       /\ processingQueue[inst] = <<>>
  /\ \E k \in DOMAIN eventPhotos : ~eventPhotos[k].processed

====
